---- MODULE Spec2Model ----
(***************************************************************************)
(* Form lifecycle, status reconciliation and periodic form generation of   *)
(* the animal tracking back end (routers/form.py, routers/animal.py,       *)
(* models.py).  Requests run one at a time, each handler to completion.    *)
(***************************************************************************)
EXTENDS Integers, Sequences, FiniteSets, TLC

(***************************************************************************)
(* Bounds of the model.                                                    *)
(***************************************************************************)
MaxAnimals == 2
MaxForms == 3
\* how many requests a behaviour handles
MaxRequests == 5
MaxFormRequests == 6
\* how many threads handle requests and scheduler jobs at the same time
MaxThreads == 2
\* resolution of a datetime: clock ticks in one calendar day
TicksPerDay == 2

(***************************************************************************)
(* datetime: an instant is a number of ticks since 1 January 2023, a       *)
(* calendar date is year, month, day.                                      *)
(***************************************************************************)
Years == 2023..2025

IsLeap(y) == (y % 4 = 0 /\ y % 100 # 0) \/ y % 400 = 0

DaysInMonth(y, m) ==
    IF m = 2 THEN (IF IsLeap(y) THEN 29 ELSE 28)
    ELSE IF m \in {4, 6, 9, 11} THEN 30 ELSE 31

DaysInYear(y) == IF IsLeap(y) THEN 366 ELSE 365

RECURSIVE DaysBeforeYear(_)
DaysBeforeYear(y) ==
    IF y <= 2023 THEN 0 ELSE DaysBeforeYear(y - 1) + DaysInYear(y - 1)

RECURSIVE DaysBeforeMonth(_, _)
DaysBeforeMonth(y, m) ==
    IF m <= 1 THEN 0 ELSE DaysBeforeMonth(y, m - 1) + DaysInMonth(y, m - 1)

\* datetime(y, m, d) at tick `tod' of that day
DateTime(y, m, d, tod) ==
    (DaysBeforeYear(y) + DaysBeforeMonth(y, m) + (d - 1)) * TicksPerDay + tod

DayOf(t) == t \div TicksPerDay
TimeOfDay(t) == t % TicksPerDay

YearOf(t) ==
    CHOOSE y \in Years :
        DaysBeforeYear(y) <= DayOf(t) /\ DayOf(t) < DaysBeforeYear(y + 1)

MonthOf(t) ==
    LET y == YearOf(t)
        n == DayOf(t) - DaysBeforeYear(y)
    IN  CHOOSE m \in 1..12 :
            DaysBeforeMonth(y, m) <= n /\ n < DaysBeforeMonth(y, m) + DaysInMonth(y, m)

DayOfMonth(t) ==
    LET y == YearOf(t)
    IN  DayOf(t) - DaysBeforeYear(y) - DaysBeforeMonth(y, MonthOf(t)) + 1

Min(a, b) == IF a <= b THEN a ELSE b

\* dt + relativedelta(months=n): the month moves by n, the year follows, the
\* day of month is kept when the target month has it and clamped otherwise
AddMonths(t, n) ==
    LET m0 == (MonthOf(t) - 1) + n
        y  == YearOf(t) + (m0 \div 12)
        m  == (m0 % 12) + 1
        d  == Min(DayOfMonth(t), DaysInMonth(y, m))
    IN  DateTime(y, m, d, TimeOfDay(t))

\* dt + timedelta(days=n)
AddDays(t, n) == t + n * TicksPerDay

ControlDueDays == 7

(***************************************************************************)
(* Optional values: None is the empty sequence, a set value is <<v>>.      *)
(***************************************************************************)
None == << >>
Some(v) == << v >>
IsSet(o) == o # None
Val(o) == o[1]

(***************************************************************************)
(* Inputs of the requests.                                                 *)
(***************************************************************************)
AnimalIds == 1..MaxAnimals
FormIds == 1..MaxForms

\* the instants at which requests read the clock
ClockValues ==
    { DateTime(2023, 1, 31, 1), DateTime(2023, 2, 28, 0), DateTime(2023, 2, 28, 1) }

\* form_generation_period values sent by clients
PeriodInputs == {0, 1}

\* last_form_sent_date values sent by clients in PUT /animals/{id}
SentDateInputs == { DateTime(2023, 1, 31, 1) }

\* the same inputs, wider, for the runs that exercise the calendar
CalClockValues ==
    { DateTime(2023, 1, 31, 1), DateTime(2023, 2, 27, 1), DateTime(2023, 2, 28, 0),
      DateTime(2023, 2, 28, 1), DateTime(2024, 1, 31, 1), DateTime(2024, 2, 28, 1),
      DateTime(2024, 2, 29, 0), DateTime(2024, 2, 29, 1) }
CalPeriodInputs == {-1, 1, 13}

\* form_status values sent by clients in PUT /forms/{id}
StatusInputs == {"created", "sent", "filled", "controlled", "archived"}

VARIABLES
    animals,    \* table animals: id -> row
    forms,      \* table forms: id -> row
    clock,      \* the latest reading of datetime.utcnow()
    lastOp,     \* the request handled last and its outcome
    hist,       \* per animal: what has happened to its forms since it was created
    requests,   \* how many requests have been handled
    inflight    \* per thread: the request it is in the middle of, if any

vars == << animals, forms, clock, lastOp, hist, requests, inflight >>

(***************************************************************************)
(* The store.                                                              *)
(***************************************************************************)
Max(S) == CHOOSE x \in S : \A y \in S : y <= x
MinOf(S) == CHOOSE x \in S : \A y \in S : x <= y

\* Column(Integer, primary_key=True) on SQLite: the next rowid is one more
\* than the largest in the table
NextId(table) == IF DOMAIN table = {} THEN 1 ELSE Max(DOMAIN table) + 1

Insert(table, id, row) ==
    [x \in DOMAIN table \cup {id} |-> IF x = id THEN row ELSE table[x]]

Delete(table, ids) == [x \in DOMAIN table \ ids |-> table[x]]

\* db.query(Form).filter(Form.animal_id == animal_id)
FormsOf(fs, animal_id) == { f \in DOMAIN fs : fs[f].animal_id = animal_id }

\* models.Animal(...) as create_animal builds it
NewAnimal(period) ==
    [ form_generation_period |-> period,
      form_status            |-> "created",
      last_form_sent_date    |-> None,
      last_form_created_date |-> None,
      form_ids               |-> << >> ]

\* models.Form(animal_id=..., created_date=...) with the column defaults
NewForm(animal_id, created) ==
    [ animal_id        |-> animal_id,
      form_status      |-> "created",
      created_date     |-> created,
      assigned_date    |-> None,
      filled_date      |-> None,
      controlled_date  |-> None,
      control_due_date |-> None ]

\* list.remove(x): drops the first occurrence of x
RECURSIVE Remove(_, _)
Remove(s, x) ==
    IF s = << >> THEN << >>
    ELSE IF Head(s) = x THEN Tail(s)
    ELSE << Head(s) >> \o Remove(Tail(s), x)

Contains(s, x) == \E i \in 1..Len(s) : s[i] = x

\* GET /forms/{form_id} and GET /animals/{animal_id}
read_form(form_id) == IF form_id \in DOMAIN forms THEN "Ok" ELSE "NotFound"
read_animal(animal_id) == IF animal_id \in DOMAIN animals THEN "Ok" ELSE "NotFound"

(***************************************************************************)
(* Status Reconciler.                                                      *)
(***************************************************************************)
\* order_by(Form.id.desc()).first()
latest_form(fs, animal_id) == fs[Max(FormsOf(fs, animal_id))]

\* a reconciler that takes the creation date of the latest form as the date
\* the form was sent
reconcile_from_created_date(an, fs, animal_id) ==
    IF animal_id \notin DOMAIN an THEN an
    ELSE IF FormsOf(fs, animal_id) = {} THEN an
    ELSE LET latest == latest_form(fs, animal_id)
         IN  [an EXCEPT
                 ![animal_id].form_status = latest.form_status,
                 ![animal_id].last_form_sent_date = Some(latest.created_date)]

\* a reconciler that takes as latest the form that was sent last
reconcile_last_sent(an, fs, animal_id) ==
    IF animal_id \notin DOMAIN an THEN an
    ELSE IF FormsOf(fs, animal_id) = {} THEN an
    ELSE LET sent == { f \in FormsOf(fs, animal_id) : IsSet(fs[f].assigned_date) }
             latest == IF sent = {} THEN latest_form(fs, animal_id)
                       ELSE fs[CHOOSE f \in sent :
                                   \A g \in sent : \/ Val(fs[g].assigned_date) < Val(fs[f].assigned_date)
                                                   \/ /\ fs[g].assigned_date = fs[f].assigned_date
                                                      /\ g <= f]
         IN  [an EXCEPT
                 ![animal_id].form_status = latest.form_status,
                 ![animal_id].last_form_sent_date =
                     IF IsSet(latest.assigned_date) THEN latest.assigned_date ELSE @]

\* a reconciler that orders the forms by ascending id and so takes the first
\* form of the animal
reconcile_lowest_id(an, fs, animal_id) ==
    IF animal_id \notin DOMAIN an THEN an
    ELSE IF FormsOf(fs, animal_id) = {} THEN an
    ELSE LET first == fs[MinOf(FormsOf(fs, animal_id))]
         IN  [an EXCEPT
                 ![animal_id].form_status = first.form_status,
                 ![animal_id].last_form_sent_date =
                     IF IsSet(first.assigned_date) THEN first.assigned_date ELSE @]

update_animal_from_latest_form(an, fs, animal_id) ==
    IF animal_id \notin DOMAIN an THEN an
    ELSE IF FormsOf(fs, animal_id) = {} THEN an
    ELSE LET latest == latest_form(fs, animal_id)
         IN  [an EXCEPT
                 ![animal_id].form_status = latest.form_status,
                 ![animal_id].last_form_sent_date =
                     IF IsSet(latest.assigned_date) THEN latest.assigned_date ELSE @]

(***************************************************************************)
(* Periodic Generator.                                                     *)
(***************************************************************************)
\* a due date counted in periods of 30 days instead of calendar months
next_form_date_30_days(last_sent_date, period) == AddDays(last_sent_date, 30 * period)

next_form_date(last_sent_date, period) == AddMonths(last_sent_date, period)

\* a due check that wants the due date to have passed
should_create_after(animal, now) ==
    IF animal.form_generation_period <= 0 THEN FALSE
    ELSE IF animal.last_form_sent_date = None THEN TRUE
    ELSE now > next_form_date(Val(animal.last_form_sent_date),
                              animal.form_generation_period)

should_create(animal, now) ==
    IF animal.form_generation_period <= 0 THEN FALSE
    ELSE IF animal.last_form_sent_date = None THEN TRUE
    ELSE now >= next_form_date(Val(animal.last_form_sent_date),
                               animal.form_generation_period)

\* a loop body that puts the id of the new form in front of form_ids
generate_for_front(st, animal_id, now) ==
    LET id == NextId(st.forms)
    IN  [st EXCEPT
            !.animals = [@ EXCEPT ![animal_id].form_ids = << id >> \o @],
            !.forms   = Insert(@, id, NewForm(animal_id, now)),
            !.created = Append(@, id)]

\* a loop body that takes the generated form as sent at its creation
generate_for_marks_sent(st, animal_id, now) ==
    LET id == NextId(st.forms)
    IN  [st EXCEPT
            !.animals = [@ EXCEPT ![animal_id].form_ids = Append(@, id),
                                  ![animal_id].last_form_sent_date = Some(now)],
            !.forms   = Insert(@, id, NewForm(animal_id, now)),
            !.created = Append(@, id)]

\* a loop body that leaves the new form out of the returned list
generate_for_unreported(st, animal_id, now) ==
    LET id == NextId(st.forms)
    IN  [st EXCEPT
            !.animals = [@ EXCEPT ![animal_id].form_ids = Append(@, id)],
            !.forms   = Insert(@, id, NewForm(animal_id, now))]

\* the body of the loop for one due animal: insert the form, append its id
generate_for(st, animal_id, now) ==
    LET id == NextId(st.forms)
    IN  [st EXCEPT
            !.animals = [@ EXCEPT ![animal_id].form_ids = Append(@, id)],
            !.forms   = Insert(@, id, NewForm(animal_id, now)),
            !.created = Append(@, id)]

\* for animal in animals: ... over the ids in `todo', in table order.  The
\* store raises when the form of animal `fails' is committed (0: it never
\* raises); nothing catches the exception, so the loop ends there with the
\* forms committed so far.
\* The commit that raises is the one of the new form (at = "form": the
\* form is not stored) or the one of form_ids that follows it (at =
\* "form_ids": the form is stored, form_ids is not).
RECURSIVE generate_loop(_, _, _, _, _)
generate_loop(st, todo, now, fails, at) ==
    IF todo = {} \/ st.failed THEN st
    ELSE LET a == MinOf(todo)
             next == IF ~should_create(st.animals[a], now) THEN st
                     ELSE IF a = fails /\ at = "form" THEN [st EXCEPT !.failed = TRUE]
                     ELSE IF a = fails
                     THEN [st EXCEPT
                              !.forms = Insert(@, NextId(@), NewForm(a, now)),
                              !.failed = TRUE]
                     ELSE generate_for(st, a, now)
         IN  generate_loop(next, todo \ {a}, now, fails, at)

run_periodic_form_generation(an, fs, now, fails, at) ==
    generate_loop([animals |-> an, forms |-> fs, created |-> << >>, failed |-> FALSE],
                  DOMAIN an, now, fails, at)

(***************************************************************************)
(* Form Lifecycle Manager.                                                 *)
(***************************************************************************)
\* an update_form that stamps on every request, whatever the old status
stamps_always(form, update_data) ==
    IF update_data = None THEN "none"
    ELSE IF Val(update_data) \in {"sent", "filled", "controlled"} THEN Val(update_data)
    ELSE "none"

\* a chain with only its first branch: only the move into sent stamps dates
stamps_sent_only(form, update_data) ==
    IF update_data = None THEN "none"
    ELSE IF Val(update_data) = "sent" /\ form.form_status # "sent" THEN "sent"
    ELSE "none"

\* the if / elif chain of update_form: which transition the request makes
stamps(form, update_data) ==
    IF update_data = None THEN "none"
    ELSE IF Val(update_data) = "sent" /\ form.form_status # "sent" THEN "sent"
    ELSE IF Val(update_data) = "filled" /\ form.form_status # "filled" THEN "filled"
    ELSE IF Val(update_data) = "controlled" /\ form.form_status # "controlled"
         THEN "controlled"
    ELSE "none"

\* how many times update_form calls datetime.utcnow() for this request
clock_reads(form, update_data) ==
    CASE stamps(form, update_data) = "sent" -> 2
      [] stamps(form, update_data) \in {"filled", "controlled"} -> 1
      [] OTHER -> 0

\* the date the transition into sent stores in control_due_date; t2 is the
\* second reading of the clock
control_due(t1, t2) == AddDays(t2, ControlDueDays)

\* a status block that also clears the dates of a form moved back to created
apply_status_reopens(form, update_data, t1, t2) ==
    LET stamped ==
            CASE stamps(form, update_data) = "sent" ->
                     [form EXCEPT !.assigned_date = Some(t1),
                                  !.control_due_date = Some(control_due(t1, t2))]
              [] stamps(form, update_data) = "filled" ->
                     [form EXCEPT !.filled_date = Some(t1)]
              [] stamps(form, update_data) = "controlled" ->
                     [form EXCEPT !.controlled_date = Some(t1)]
              [] update_data = Some("created") ->
                     [form EXCEPT !.assigned_date = None, !.control_due_date = None,
                                  !.filled_date = None, !.controlled_date = None]
              [] OTHER -> form
    IN  IF update_data = None THEN form
        ELSE [stamped EXCEPT !.form_status = Val(update_data)]

\* the status block of update_form; t1 and t2 are the first and the second
\* reading of the clock
apply_status(form, update_data, t1, t2) ==
    LET stamped ==
            CASE stamps(form, update_data) = "sent" ->
                     [form EXCEPT !.assigned_date = Some(t1),
                                  !.control_due_date = Some(control_due(t1, t2))]
              [] stamps(form, update_data) = "filled" ->
                     [form EXCEPT !.filled_date = Some(t1)]
              [] stamps(form, update_data) = "controlled" ->
                     [form EXCEPT !.controlled_date = Some(t1)]
              [] OTHER -> form
    IN  IF update_data = None THEN form
        ELSE [stamped EXCEPT !.form_status = Val(update_data)]

(***************************************************************************)
(* Bookkeeping of what happened: the last request, and per animal how far  *)
(* the life of its forms has followed generate -> sent -> filled ->        *)
(* controlled on a single form.                                            *)
(***************************************************************************)
\* a handled request: its route, the ids and the body it came with, whether it
\* succeeded, the forms it created and deleted, whether it repeats the
\* request handled just before it, the response the caller got and, for a
\* request the store failed, the commit that raised
Op(name, animal_id, form_id, status, ok, created, deleted) ==
    [ op |-> name, animal_id |-> animal_id, form_id |-> form_id,
      status |-> status, ok |-> ok, created |-> created, deleted |-> deleted,
      repeat |-> /\ lastOp.op = name /\ lastOp.animal_id = animal_id
                 /\ lastOp.form_id = form_id /\ lastOp.status = status
                 /\ lastOp.ok = ok,
      response |-> IF ok THEN "Ok" ELSE "NotFound",
      failed_at |-> "none" ]

\* what the caller gets when a commit raises: no handler catches the
\* exception, so whichever commit it was the answer is the same
response_of(failed_at) == "InternalServerError"

\* a request during which the commit `failed_at' raised
Raised(name, animal_id, form_id, status, created, failed_at) ==
    [ Op(name, animal_id, form_id, status, FALSE, created, {}) EXCEPT
          !.response = response_of(failed_at), !.failed_at = failed_at ]

\* a lookup that misses and is answered as if the request had succeeded
Answered(name) == Op(name, 0, 0, None, TRUE, << >>, {})

Rejected(name) == Op(name, 0, 0, None, FALSE, << >>, {})

NewHist ==
    [ phase |-> "fresh", sent_at |-> None, ever_sent |-> FALSE, bootstrapped |-> FALSE ]

PhaseAfterUpdate(phase, update_data) ==
    IF update_data = None THEN "off"
    ELSE IF phase = "generated" /\ Val(update_data) = "sent" THEN "sent"
    ELSE IF phase = "sent" /\ Val(update_data) = "filled" THEN "filled"
    ELSE IF phase = "filled" /\ Val(update_data) = "controlled" THEN "controlled"
    ELSE "off"

HistAfterUpdate(h, update_data, t1) ==
    [ phase     |-> PhaseAfterUpdate(h.phase, update_data),
      sent_at   |-> IF h.phase = "generated" /\ update_data = Some("sent")
                    THEN Some(t1) ELSE h.sent_at,
      ever_sent |-> h.ever_sent \/ update_data = Some("sent"),
      bootstrapped |-> h.bootstrapped ]

\* a sweep has generated a form for `animal'
HistAfterSweep(h, animal) ==
    [h EXCEPT !.phase = IF @ = "fresh" THEN "generated" ELSE "off",
              !.bootstrapped = @ \/ animal.last_form_sent_date = None]

HistOff(h) == [h EXCEPT !.phase = "off"]

(***************************************************************************)
(* Request handlers.                                                       *)
(***************************************************************************)
EmptyTable == [x \in {} |-> x]

\* the threads that run requests and scheduler jobs
Threads == 1..MaxThreads

\* what a thread holds while it is inside a handler: the handler, what
\* started it, the statement it has reached and its local variables; here
\* before the handler has set any of them
Idle ==
    [ op |-> "idle", trigger |-> "none", pc |-> "none", animal_id |-> 0,
      form_id |-> 0, now |-> 0, todo |-> {}, ids |-> << >>, created |-> << >> ]

Init ==
    /\ animals = EmptyTable
    /\ forms = EmptyTable
    /\ clock = MinOf(ClockValues)
    /\ lastOp = [ op |-> "start", animal_id |-> 0, form_id |-> 0, status |-> None,
                 ok |-> TRUE, created |-> << >>, deleted |-> {}, repeat |-> FALSE,
                 response |-> "Ok", failed_at |-> "none" ]
    /\ hist = EmptyTable
    /\ requests = 0
    /\ inflight = EmptyTable

\* POST /animals/
create_animal(period, user_exists) ==
    IF ~user_exists
    THEN /\ lastOp' = Rejected("create_animal")
         /\ UNCHANGED << animals, forms, clock, hist >>
    ELSE LET id == NextId(animals)
         IN  /\ id \in AnimalIds
             /\ animals' = Insert(animals, id, NewAnimal(period))
             /\ hist' = Insert(hist, id, NewHist)
             /\ lastOp' = Op("create_animal", id, 0, None, TRUE, << >>, {})
             /\ UNCHANGED << forms, clock >>

\* for field, value in update_data.items(): setattr(db_animal, field, value)
set_fields(animal, update_data) ==
    [animal EXCEPT
        !.form_generation_period =
            IF IsSet(update_data.form_generation_period)
            THEN Val(update_data.form_generation_period) ELSE @,
        !.last_form_sent_date =
            IF IsSet(update_data.last_form_sent_date)
            THEN Val(update_data.last_form_sent_date) ELSE @]

\* PUT /animals/{animal_id}
update_animal(animal_id, update_data) ==
    IF animal_id \notin DOMAIN animals
    THEN /\ lastOp' = Rejected("update_animal")
         /\ UNCHANGED << animals, forms, clock, hist >>
    ELSE /\ animals' = [animals EXCEPT ![animal_id] = set_fields(@, update_data)]
         /\ lastOp' = Op("update_animal", animal_id, 0, None, TRUE, << >>, {})
         /\ UNCHANGED << forms, clock, hist >>

\* a delete_animal that leaves the forms of the animal behind
forms_deleted_none(fs, animal_id) == {}

\* what delete_animal removes from the forms table
forms_deleted_with(fs, animal_id) == FormsOf(fs, animal_id)

\* DELETE /animals/{animal_id}
delete_animal(animal_id) ==
    IF animal_id \notin DOMAIN animals
    THEN /\ lastOp' = Rejected("delete_animal")
         /\ UNCHANGED << animals, forms, clock, hist >>
    ELSE /\ forms' = Delete(forms, forms_deleted_with(forms, animal_id))
         /\ animals' = Delete(animals, {animal_id})
         /\ hist' = Delete(hist, {animal_id})
         /\ lastOp' = Op("delete_animal", animal_id, 0, None, TRUE, << >>,
                         forms_deleted_with(forms, animal_id))
         /\ UNCHANGED clock

\* a creation that puts the new id in front
prepend_form_id(form_ids, id) == << id >> \o form_ids

\* current_form_ids.append(db_form.id); db_animal.form_ids = current_form_ids
append_form_id(form_ids, id) == Append(form_ids, id)

\* POST /forms/
create_form(animal_id, now) ==
    IF animal_id \notin DOMAIN animals
    THEN /\ lastOp' = Rejected("create_form")
         /\ UNCHANGED << animals, forms, clock, hist >>
    ELSE LET id == NextId(forms)
         IN  /\ id \in FormIds
             /\ now >= clock
             /\ clock' = now
             /\ forms' = Insert(forms, id, NewForm(animal_id, now))
             /\ animals' = [animals EXCEPT
                    ![animal_id].form_ids = append_form_id(@, id)]
             /\ hist' = [hist EXCEPT ![animal_id] = HistOff(@)]
             /\ lastOp' = Op("create_form", animal_id, id, None, TRUE, << id >>, {})

\* POST /animals/{animal_id}/create-form
create_form_for_animal(animal_id, now) ==
    IF animal_id \notin DOMAIN animals
    THEN /\ lastOp' = Rejected("create_form_for_animal")
         /\ UNCHANGED << animals, forms, clock, hist >>
    ELSE LET id == NextId(forms)
         IN  /\ id \in FormIds
             /\ now >= clock
             /\ clock' = now
             /\ forms' = Insert(forms, id, NewForm(animal_id, now))
             /\ animals' = [animals EXCEPT
                    ![animal_id].form_ids = append_form_id(@, id),
                    ![animal_id].last_form_created_date = Some(now)]
             /\ hist' = [hist EXCEPT ![animal_id] = HistOff(@)]
             /\ lastOp' = Op("create_form_for_animal", animal_id, id, None, TRUE,
                             << id >>, {})

\* the animals table after update_form has committed the form
\* an update that returns without reconciling the animal
after_update_stale(an, fs, animal_id) == an

after_update(an, fs, animal_id) == update_animal_from_latest_form(an, fs, animal_id)

\* PUT /forms/{form_id}
\* `fails' is the commit that raises during the request: "none", "commit"
\* (the commit of the form) or "reconcile" (the commit of the reconciler,
\* after the form has been committed)
update_form(form_id, update_data, t1, t2, fails) ==
    IF form_id \notin DOMAIN forms
    THEN /\ t1 = clock /\ t2 = clock /\ fails = "none"
         /\ lastOp' = Rejected("update_form")
         /\ UNCHANGED << animals, forms, clock, hist >>
    ELSE LET db_form == forms[form_id]
             reads == clock_reads(db_form, update_data)
             fs == [forms EXCEPT ![form_id] = apply_status(db_form, update_data, t1, t2)]
         IN  /\ clock <= t1 /\ t1 <= t2
             /\ reads = 0 => t1 = clock
             /\ reads <= 1 => t2 = t1
             /\ clock' = t2
             /\ CASE fails = "commit" ->
                       /\ UNCHANGED << animals, forms, hist >>
                       /\ lastOp' = Raised("update_form", db_form.animal_id, form_id,
                                           update_data, << >>, fails)
                  [] fails = "reconcile" ->
                       /\ forms' = fs
                       /\ animals' = animals
                       /\ hist' = [hist EXCEPT ![db_form.animal_id] =
                                      HistOff(HistAfterUpdate(@, update_data, t1))]
                       /\ lastOp' = Raised("update_form", db_form.animal_id, form_id,
                                           update_data, << >>, fails)
                  [] OTHER ->
                       /\ forms' = fs
                       /\ animals' = after_update(animals, fs, db_form.animal_id)
                       /\ hist' = [hist EXCEPT ![db_form.animal_id] =
                                      HistAfterUpdate(@, update_data, t1)]
                       /\ lastOp' = Op("update_form", db_form.animal_id, form_id,
                                       update_data, TRUE, << >>, {})

\* the form_ids list delete_form writes back
remove_form_id(form_ids, form_id) ==
    IF Contains(form_ids, form_id) THEN Remove(form_ids, form_id) ELSE form_ids

\* a delete_form that does not reconcile
after_delete_stale(an, fs, animal_id) == an

\* the animals table after delete_form has deleted the row
after_delete(an, fs, animal_id) == update_animal_from_latest_form(an, fs, animal_id)

\* DELETE /forms/{form_id}
delete_form(form_id) ==
    IF form_id \notin DOMAIN forms
    THEN /\ lastOp' = Rejected("delete_form")
         /\ UNCHANGED << animals, forms, clock, hist >>
    ELSE LET animal_id == forms[form_id].animal_id
             an == IF animal_id \in DOMAIN animals
                   THEN [animals EXCEPT
                            ![animal_id].form_ids = remove_form_id(@, form_id)]
                   ELSE animals
             fs == Delete(forms, {form_id})
         IN  /\ forms' = fs
             /\ animals' = after_delete(an, fs, animal_id)
             /\ hist' = [a \in DOMAIN hist |->
                            IF a = animal_id THEN HistOff(hist[a]) ELSE hist[a]]
             /\ lastOp' = Op("delete_form", animal_id, form_id, None, TRUE, << >>,
                             {form_id})
             /\ UNCHANGED clock

\* POST /forms/generate-periodic, and the scheduler's run_periodic_job
generate_periodic_forms(now, fails, at) ==
    LET out == run_periodic_form_generation(animals, forms, now, fails, at)
    IN  /\ now >= clock
        /\ DOMAIN out.forms \subseteq FormIds
        /\ IF fails = 0 THEN at = "form" ELSE out.failed
        /\ clock' = now
        /\ animals' = out.animals
        /\ forms' = out.forms
        /\ hist' = [a \in DOMAIN hist |->
                       IF \E i \in 1..Len(out.created) :
                              out.forms[out.created[i]].animal_id = a
                       THEN HistAfterSweep(hist[a], animals[a]) ELSE hist[a]]
        /\ lastOp' = IF out.failed
                     THEN Raised("generate_periodic_forms", fails, 0, None,
                                 out.created, at)
                     ELSE Op("generate_periodic_forms", 0, 0, None, TRUE,
                             out.created, {})

\* bodies of PUT /animals/{id}: each field is absent (None) or given (Some)
AnimalUpdateBodies(periods, dates) ==
    [ form_generation_period : {None} \cup { Some(p) : p \in periods },
      last_form_sent_date    : {None, Some(None)} \cup { Some(Some(d)) : d \in dates } ]

AnimalUpdates == AnimalUpdateBodies(PeriodInputs, SentDateInputs)

\* the animal at whose form the store fails during a sweep; 0: no failure
StoreFailures == {0} \cup AnimalIds

\* bodies of PUT /forms/{id}
FormUpdates == {None} \cup { Some(s) : s \in StatusInputs }

\* one more request is accepted
Accept == requests < MaxRequests /\ requests' = requests + 1

\* one more request is handled, from start to end with no other in between
Count == Accept /\ UNCHANGED inflight

Next ==
    \/ \E p \in PeriodInputs, u \in BOOLEAN : Count /\ create_animal(p, u)
    \/ \E a \in AnimalIds, d \in AnimalUpdates : Count /\ update_animal(a, d)
    \/ \E a \in AnimalIds : Count /\ delete_animal(a)
    \/ \E a \in AnimalIds, t \in ClockValues : Count /\ create_form(a, t)
    \/ \E a \in AnimalIds, t \in ClockValues : Count /\ create_form_for_animal(a, t)
    \/ \E f \in FormIds, d \in FormUpdates, t1, t2 \in ClockValues :
           Count /\ update_form(f, d, t1, t2, "none")
    \/ \E f \in FormIds : Count /\ delete_form(f)
    \/ \E t \in ClockValues, x \in StoreFailures :
           Count /\ generate_periodic_forms(t, x, "form")

Spec == Init /\ [][Next]_vars

\* the requests that create animals and create, update and delete forms:
\* no PUT /animals/{id} and no DELETE /animals/{id}
NextForms ==
    \/ \E p \in PeriodInputs : Count /\ create_animal(p, TRUE)
    \/ \E a \in AnimalIds, t \in ClockValues : Count /\ create_form(a, t)
    \/ \E a \in AnimalIds, t \in ClockValues : Count /\ create_form_for_animal(a, t)
    \/ \E f \in FormIds, d \in FormUpdates, t1, t2 \in ClockValues :
           Count /\ update_form(f, d, t1, t2, "none")
    \/ \E f \in FormIds : Count /\ delete_form(f)
    \/ \E t \in ClockValues : Count /\ generate_periodic_forms(t, 0, "form")

SpecForms == Init /\ [][NextForms]_vars

\* the commits of update_form and of the sweep that the store can fail
UpdateFailures == {"none", "commit", "reconcile"}
SweepFailures == {"form", "form_ids"}

\* form requests and sweeps on a store that can fail any commit
NextFail ==
    \/ \E p \in PeriodInputs : Count /\ create_animal(p, TRUE)
    \/ \E a \in AnimalIds, t \in ClockValues : Count /\ create_form(a, t)
    \/ \E f \in FormIds, d \in FormUpdates, t1, t2 \in ClockValues,
          x \in UpdateFailures : Count /\ update_form(f, d, t1, t2, x)
    \/ \E t \in ClockValues, x \in StoreFailures, at \in SweepFailures :
           Count /\ generate_periodic_forms(t, x, at)

SpecFail == Init /\ [][NextFail]_vars

\* the requests that create, change and delete forms, long enough for an
\* animal to get three forms and two of them to be updated
CountForms ==
    /\ requests < MaxFormRequests /\ requests' = requests + 1
    /\ UNCHANGED inflight

NextLatest ==
    \/ \E p \in PeriodInputs : CountForms /\ create_animal(p, TRUE)
    \/ \E a \in AnimalIds, t \in ClockValues : CountForms /\ create_form(a, t)
    \/ \E f \in FormIds, d \in FormUpdates, t1, t2 \in ClockValues :
           CountForms /\ update_form(f, d, t1, t2, "none")
    \/ \E f \in FormIds : CountForms /\ delete_form(f)
    \/ \E t \in ClockValues : CountForms /\ generate_periodic_forms(t, 0, "form")

SpecLatest == Init /\ [][NextLatest]_vars

\* the same handlers driven over the calendar: animals are created and edited,
\* forms are generated and sent, at instants around the ends of January and
\* February of a common and of a leap year
NextCal ==
    \/ \E p \in CalPeriodInputs : Count /\ create_animal(p, TRUE)
    \/ \E f \in FormIds, t1, t2 \in CalClockValues :
           Count /\ update_form(f, Some("sent"), t1, t2, "none")
    \/ \E t \in CalClockValues : Count /\ generate_periodic_forms(t, 0, "form")

SpecCal == Init /\ [][NextCal]_vars

(***************************************************************************)
(* The same handlers run by several threads.  A step is what one thread    *)
(* does between two interactions with the database that other threads can  *)
(* see: a SELECT outside a transaction, or the statements up to a commit.  *)
(***************************************************************************)
\* inflight holds the threads that are inside a handler
Free(t) == t \notin DOMAIN inflight
Enter(t, rec) == inflight' = Insert(inflight, t, rec)
Leave(t) == inflight' = Delete(inflight, {t})
At(t, op, pc) == t \in DOMAIN inflight /\ inflight[t].op = op /\ inflight[t].pc = pc

\* POST /forms/: the animal is looked up, the form is added and committed
create_form_insert(t, animal_id, now) ==
    /\ Free(t)
    /\ IF animal_id \notin DOMAIN animals
       THEN /\ lastOp' = Rejected("create_form")
            /\ UNCHANGED << animals, forms, clock, hist, inflight >>
       ELSE LET id == NextId(forms)
            IN  /\ id \in FormIds
                /\ now >= clock
                /\ clock' = now
                /\ forms' = Insert(forms, id, NewForm(animal_id, now))
                /\ Enter(t, [Idle EXCEPT !.op = "create_form", !.trigger = "request",
                                         !.pc = "read_ids", !.animal_id = animal_id,
                                         !.form_id = id])
                /\ UNCHANGED << animals, lastOp, hist >>

\* current_form_ids = db_animal.form_ids: the row, expired by the commit, is
\* loaded again
create_form_read_ids(t) ==
    /\ At(t, "create_form", "read_ids")
    /\ Enter(t, [inflight[t] EXCEPT !.pc = "write_ids",
                                    !.ids = animals[inflight[t].animal_id].form_ids])
    /\ UNCHANGED << animals, forms, clock, lastOp, hist >>

\* current_form_ids.append(db_form.id); db_animal.form_ids = ...; db.commit()
create_form_write_ids(t) ==
    /\ At(t, "create_form", "write_ids")
    /\ animals' = [animals EXCEPT ![inflight[t].animal_id].form_ids =
                      append_form_id(inflight[t].ids, inflight[t].form_id)]
    /\ lastOp' = Op("create_form", inflight[t].animal_id, inflight[t].form_id, None,
                    TRUE, << inflight[t].form_id >>, {})
    /\ Leave(t)
    /\ UNCHANGED << forms, clock, hist >>

\* DELETE /forms/{form_id}: the form and its animal are looked up
delete_form_read(t, form_id) ==
    /\ Free(t)
    /\ IF form_id \notin DOMAIN forms
       THEN /\ lastOp' = Rejected("delete_form")
            /\ UNCHANGED << animals, forms, clock, hist, inflight >>
       ELSE LET animal_id == forms[form_id].animal_id
                ids == animals[animal_id].form_ids
            IN  /\ Enter(t, [Idle EXCEPT
                                !.op = "delete_form", !.trigger = "request",
                                !.pc = IF Contains(ids, form_id)
                                       THEN "write_ids" ELSE "delete_row",
                                !.animal_id = animal_id, !.form_id = form_id,
                                !.ids = ids])
                /\ UNCHANGED << animals, forms, clock, lastOp, hist >>

\* current_form_ids.remove(form_id); db_animal.form_ids = ...; db.commit()
delete_form_write_ids(t) ==
    /\ At(t, "delete_form", "write_ids")
    /\ animals' = [animals EXCEPT ![inflight[t].animal_id].form_ids =
                      remove_form_id(inflight[t].ids, inflight[t].form_id)]
    /\ Enter(t, [inflight[t] EXCEPT !.pc = "delete_row"])
    /\ UNCHANGED << forms, clock, lastOp, hist >>

\* db.delete(db_form); db.commit(); the request fails when another thread
\* has deleted the row in the meantime
delete_form_delete_row(t) ==
    /\ At(t, "delete_form", "delete_row")
    /\ IF inflight[t].form_id \in DOMAIN forms
       THEN /\ forms' = Delete(forms, {inflight[t].form_id})
            /\ Enter(t, [inflight[t] EXCEPT !.pc = "reconcile"])
            /\ UNCHANGED lastOp
       ELSE /\ lastOp' = Rejected("delete_form")
            /\ Leave(t)
            /\ UNCHANGED forms
    /\ UNCHANGED << animals, clock, hist >>

\* update_animal_from_latest_form(db, animal_id), then the response
delete_form_reconcile(t) ==
    /\ At(t, "delete_form", "reconcile")
    /\ animals' = after_delete(animals, forms, inflight[t].animal_id)
    /\ lastOp' = Op("delete_form", inflight[t].animal_id, inflight[t].form_id, None,
                    TRUE, << >>, {inflight[t].form_id})
    /\ Leave(t)
    /\ UNCHANGED << forms, clock, hist >>

\* a sweep begins: now = datetime.utcnow(); animals = query(Animal).all().
\* The interval job is added with max_instances=1, so the scheduler skips a
\* run while the job's previous run has not returned; the request handler
\* has no such check.
sweep_start(t, trigger, now) ==
    /\ Free(t)
    /\ trigger = "scheduler" =>
           \A u \in DOMAIN inflight :
               ~(inflight[u].op = "sweep" /\ inflight[u].trigger = "scheduler")
    /\ now >= clock
    /\ clock' = now
    /\ Enter(t, [Idle EXCEPT !.op = "sweep", !.trigger = trigger, !.pc = "visit",
                             !.now = now, !.todo = DOMAIN animals])
    /\ UNCHANGED << animals, forms, lastOp, hist >>

\* the loop reaches its next animal: the due check, and for a due animal the
\* new form added and committed
sweep_visit(t) ==
    /\ At(t, "sweep", "visit")
    /\ inflight[t].todo # {}
    /\ LET a == MinOf(inflight[t].todo)
           id == NextId(forms)
       IN  IF should_create(animals[a], inflight[t].now)
           THEN /\ id \in FormIds
                /\ forms' = Insert(forms, id, NewForm(a, inflight[t].now))
                /\ Enter(t, [inflight[t] EXCEPT !.pc = "read_ids", !.animal_id = a,
                                                !.form_id = id])
           ELSE /\ Enter(t, [inflight[t] EXCEPT !.todo = @ \ {a}])
                /\ UNCHANGED forms
    /\ UNCHANGED << animals, clock, lastOp, hist >>

\* current_ids = animal.form_ids or []
sweep_read_ids(t) ==
    /\ At(t, "sweep", "read_ids")
    /\ Enter(t, [inflight[t] EXCEPT !.pc = "write_ids",
                                    !.ids = animals[inflight[t].animal_id].form_ids])
    /\ UNCHANGED << animals, forms, clock, lastOp, hist >>

\* current_ids.append(new_form.id); animal.form_ids = current_ids;
\* db.commit(); created_forms.append(new_form)
sweep_write_ids(t) ==
    /\ At(t, "sweep", "write_ids")
    /\ animals' = [animals EXCEPT ![inflight[t].animal_id].form_ids =
                      Append(inflight[t].ids, inflight[t].form_id)]
    /\ Enter(t, [inflight[t] EXCEPT !.pc = "visit",
                                    !.todo = @ \ {inflight[t].animal_id},
                                    !.created = Append(@, inflight[t].form_id)])
    /\ UNCHANGED << forms, clock, lastOp, hist >>

\* return created_forms
sweep_return(t) ==
    /\ At(t, "sweep", "visit")
    /\ inflight[t].todo = {}
    /\ lastOp' = Op("generate_periodic_forms", 0, 0, None, TRUE, inflight[t].created, {})
    /\ Leave(t)
    /\ UNCHANGED << animals, forms, clock, hist >>

Triggers == {"request", "scheduler"}

\* the instants at which the threads read the clock
ConcClockValues == { DateTime(2023, 1, 31, 1), DateTime(2023, 2, 28, 0) }

NextConc ==
    \/ \E p \in PeriodInputs : Count /\ create_animal(p, TRUE)
    \/ \E t \in Threads, a \in AnimalIds, now \in ConcClockValues :
           Accept /\ create_form_insert(t, a, now)
    \/ \E t \in Threads : create_form_read_ids(t) /\ UNCHANGED requests
    \/ \E t \in Threads : create_form_write_ids(t) /\ UNCHANGED requests
    \/ \E t \in Threads, f \in FormIds : Accept /\ delete_form_read(t, f)
    \/ \E t \in Threads : delete_form_write_ids(t) /\ UNCHANGED requests
    \/ \E t \in Threads : delete_form_delete_row(t) /\ UNCHANGED requests
    \/ \E t \in Threads : delete_form_reconcile(t) /\ UNCHANGED requests
    \/ \E t \in Threads, g \in Triggers, now \in ConcClockValues :
           Accept /\ sweep_start(t, g, now)
    \/ \E t \in Threads : sweep_visit(t) /\ UNCHANGED requests
    \/ \E t \in Threads : sweep_read_ids(t) /\ UNCHANGED requests
    \/ \E t \in Threads : sweep_write_ids(t) /\ UNCHANGED requests
    \/ \E t \in Threads : sweep_return(t) /\ UNCHANGED requests

SpecConc == Init /\ [][NextConc]_vars

(***************************************************************************)
(* Properties.                                                             *)
(***************************************************************************)
Sweep == "generate_periodic_forms"
FormOps ==
    {"create_form", "create_form_for_animal", "update_form", "delete_form", Sweep}

\* a request was handled in this step
Handled == requests' = requests + 1

Done(name) == lastOp.op = name /\ lastOp.ok

\* this step handled request `name' successfully
Handles(name) == Handled /\ lastOp'.op = name /\ lastOp'.ok

HasForms(a) == FormsOf(forms, a) # {}
Dates(form) ==
    << form.assigned_date, form.filled_date, form.controlled_date,
       form.control_due_date >>

\* C1: after a completed form creation (POST /forms/, create-form, sweep),
\* status update or form deletion, every animal that has forms carries the
\* form_status of its highest-id form.
C1_MirrorFollowsLatestForm ==
    (lastOp.ok /\ lastOp.op \in FormOps) =>
        \A a \in DOMAIN animals :
            HasForms(a) => animals[a].form_status = latest_form(forms, a).form_status

\* C2: a status update that repeats the status update handled just before it
\* (same form, same form_status) leaves assigned_date, filled_date,
\* controlled_date and control_due_date of the form as the first one left them.
C2_RepeatedStatusKeepsDates ==
    [][ (Handles("update_form") /\ lastOp'.repeat /\ lastOp'.status # None) =>
            /\ lastOp'.form_id \in DOMAIN forms
            /\ Dates(forms'[lastOp'.form_id]) = Dates(forms[lastOp'.form_id]) ]_vars

C2_Witness ==
    /\ Done("update_form") /\ lastOp.repeat /\ lastOp.status = Some("sent")
    /\ IsSet(forms[lastOp.form_id].assigned_date)
    /\ IsSet(forms[lastOp.form_id].control_due_date)

\* C3: when update_form moves a form into sent from another status, the
\* control_due_date it stores is the assigned_date it stores plus 7 days.
C3_DueIsAssignedPlusSevenDays ==
    [][ \A f \in DOMAIN forms :
            ( /\ Handles("update_form") /\ lastOp'.form_id = f
              /\ lastOp'.status = Some("sent") /\ forms[f].form_status # "sent" ) =>
                forms'[f].control_due_date =
                    Some(AddDays(Val(forms'[f].assigned_date), ControlDueDays)) ]_vars

\* C4: an animal whose only form was generated by a sweep and then moved to
\* sent at T, to filled and to controlled, with no other form operation on the
\* animal: after the sweep the form is in status created with no dates; after
\* the update to controlled the form has assigned_date = T and its three other
\* dates set, and the animal has form_status controlled and
\* last_form_sent_date = T.
C4_EndToEnd ==
    \A a \in DOMAIN animals :
        /\ (hist[a].phase = "generated" /\ Done(Sweep)) =>
               /\ Len(animals[a].form_ids) = 1
               /\ FormsOf(forms, a) = { animals[a].form_ids[1] }
               /\ forms[animals[a].form_ids[1]].form_status = "created"
               /\ Dates(forms[animals[a].form_ids[1]]) = << None, None, None, None >>
        /\ (hist[a].phase = "controlled" /\ Done("update_form") /\ lastOp.animal_id = a) =>
               /\ FormsOf(forms, a) = { lastOp.form_id }
               /\ forms[lastOp.form_id].form_status = "controlled"
               /\ IsSet(hist[a].sent_at)
               /\ forms[lastOp.form_id].assigned_date = hist[a].sent_at
               /\ IsSet(forms[lastOp.form_id].control_due_date)
               /\ IsSet(forms[lastOp.form_id].filled_date)
               /\ IsSet(forms[lastOp.form_id].controlled_date)
               /\ animals[a].form_status = "controlled"
               /\ animals[a].last_form_sent_date = hist[a].sent_at

C4_Witness ==
    \E a \in DOMAIN animals :
        /\ hist[a].phase = "controlled" /\ Done("update_form") /\ lastOp.animal_id = a
        /\ animals[a].form_generation_period = 1
        /\ animals[a].form_status = "controlled"
        /\ animals[a].last_form_sent_date = hist[a].sent_at
        /\ Val(forms[lastOp.form_id].controlled_date) > Val(hist[a].sent_at)

\* C5: an animal with form_generation_period > 0 gets one more form from a
\* sweep, and has last_form_sent_date unset after it, when its
\* last_form_sent_date is unset, and also when an earlier sweep generated a
\* form for it while last_form_sent_date was unset and none of its forms has
\* been moved to sent.
C5_DueOnEverySweepUntilSent ==
    [][ \A a \in DOMAIN animals :
            ( /\ Handles(Sweep)
              /\ animals[a].form_generation_period > 0
              /\ \/ animals[a].last_form_sent_date = None
                 \/ hist[a].bootstrapped /\ ~hist[a].ever_sent ) =>
                /\ animals'[a].last_form_sent_date = None
                /\ Cardinality(FormsOf(forms', a)) = Cardinality(FormsOf(forms, a)) + 1
      ]_vars

\* the due rule as the specification words it
Due(animal, now) ==
    /\ animal.form_generation_period > 0
    /\ \/ animal.last_form_sent_date = None
       \/ now >= AddMonths(Val(animal.last_form_sent_date),
                           animal.form_generation_period)

CreatedFor(a) == \E f \in DOMAIN forms' \ DOMAIN forms : forms'[f].animal_id = a

\* C6: a sweep run at time now creates a form for an animal exactly when its
\* period is > 0 and its last_form_sent_date is unset or now is at or after
\* last_form_sent_date plus that many calendar months.
C6_SweepCreatesIffDue ==
    [][ \A a \in DOMAIN animals :
            Handles(Sweep) => (CreatedFor(a) <=> Due(animals[a], clock')) ]_vars

C6_Witness ==
    /\ Done(Sweep)
    /\ \E a, b \in DOMAIN animals :
           /\ IsSet(animals[a].last_form_sent_date)
           /\ \E i \in 1..Len(lastOp.created) : forms[lastOp.created[i]].animal_id = a
           /\ animals[b].form_generation_period <= 0
           /\ ~HasForms(b)

\* the last day of February
FebruaryEnd(y) == IF y = 2024 THEN 29 ELSE 28

\* C7: an animal last sent on 31 January with a period of one month gets a
\* form from a sweep exactly when the sweep runs at or after the same time of
\* day on 28 February (29 February in the leap year).
C7_JanuaryEndDueAtFebruaryEnd ==
    [][ \A a \in DOMAIN animals, y \in {2023, 2024} :
            ( /\ Handles(Sweep)
              /\ animals[a].form_generation_period = 1
              /\ animals[a].last_form_sent_date = Some(DateTime(y, 1, 31, 1)) ) =>
                (CreatedFor(a) <=> clock' >= DateTime(y, 2, FebruaryEnd(y), 1)) ]_vars

GeneratedAt(a, t) ==
    /\ Done(Sweep) /\ clock = t
    /\ animals[a].form_generation_period = 1
    /\ \E i \in 1..Len(lastOp.created) : forms[lastOp.created[i]].animal_id = a

C7_Witness ==
    \E a \in DOMAIN animals :
        /\ animals[a].last_form_sent_date = Some(DateTime(2023, 1, 31, 1))
        /\ GeneratedAt(a, DateTime(2023, 2, 28, 1))

C7_WitnessLeap ==
    \E a \in DOMAIN animals :
        /\ animals[a].last_form_sent_date = Some(DateTime(2024, 1, 31, 1))
        /\ GeneratedAt(a, DateTime(2024, 2, 29, 1))

C7_WitnessNotYet ==
    \E a \in DOMAIN animals :
        /\ animals[a].last_form_sent_date = Some(DateTime(2024, 1, 31, 1))
        /\ animals[a].form_generation_period = 1
        /\ Done(Sweep) /\ clock = DateTime(2024, 2, 29, 0)
        /\ Len(animals[a].form_ids) = 1

\* C8: after delete_animal(a) succeeds the animal and every form that
\* belonged to it are gone (fetching them is NotFound) and the forms of the
\* other animals are as they were.
C8_DeleteAnimalCascades ==
    [][ \A a \in DOMAIN animals :
            (Handles("delete_animal") /\ lastOp'.animal_id = a) =>
                /\ a \notin DOMAIN animals'
                /\ FormsOf(forms', a) = {}
                /\ \A f \in FormsOf(forms, a) : f \notin DOMAIN forms'
                /\ \A f \in DOMAIN forms \ FormsOf(forms, a) :
                       f \in DOMAIN forms' /\ forms'[f] = forms[f] ]_vars

C8_Witness ==
    /\ Done("delete_animal")
    /\ lastOp.deleted # {}
    /\ read_animal(lastOp.animal_id) = "NotFound"
    /\ \A f \in lastOp.deleted : read_form(f) = "NotFound"
    /\ \E b \in DOMAIN animals : HasForms(b)

Without(s, x) == SelectSeq(s, LAMBDA y : y # x)

\* C9: after delete_form(f) succeeds f is gone, the owning animal's form_ids
\* is what it was with f taken out, and if the animal still has forms its
\* form_status is that of the highest-id form left.
C9_DeleteFormReconciles ==
    [][ \A f \in DOMAIN forms :
            (Handles("delete_form") /\ lastOp'.form_id = f) =>
                LET a == forms[f].animal_id
                IN  /\ f \notin DOMAIN forms'
                    /\ animals'[a].form_ids = Without(animals[a].form_ids, f)
                    /\ ~Contains(animals'[a].form_ids, f)
                    /\ FormsOf(forms', a) # {} =>
                           animals'[a].form_status =
                               forms'[Max(FormsOf(forms', a))].form_status ]_vars

C9_Witness ==
    /\ Done("delete_form")
    /\ read_form(lastOp.form_id) = "NotFound"
    /\ animals[lastOp.animal_id].form_ids = << 1, 3 >>
    /\ animals[lastOp.animal_id].form_status = forms[3].form_status

C9_WitnessStatusMoves ==
    /\ Done("delete_form")
    /\ HasForms(lastOp.animal_id)
    /\ animals[lastOp.animal_id].form_status # "created"
    /\ lastOp.form_id > Max(FormsOf(forms, lastOp.animal_id))

\* C10: every animal's form_ids lists, without duplicates and in creation
\* order, exactly the ids of the existing forms whose animal_id is that animal.
C10_FormIdsMatchForms ==
    \A a \in DOMAIN animals :
        LET ids == animals[a].form_ids
        IN  /\ { ids[i] : i \in 1..Len(ids) } = FormsOf(forms, a)
            /\ \A i, j \in 1..Len(ids) :
                   i < j => /\ ids[i] < ids[j]
                            /\ forms[ids[i]].created_date <= forms[ids[j]].created_date

C10_Witness ==
    \E a, b \in DOMAIN animals :
        /\ animals[a].form_ids = << 1, 3 >>
        /\ animals[b].form_ids = << 2 >>

\* the four lifecycle states, in lifecycle order
Lifecycle == << "created", "sent", "filled", "controlled" >>
LifecycleStates == { Lifecycle[i] : i \in 1..Len(Lifecycle) }
Rank(s) == CHOOSE i \in 1..Len(Lifecycle) : Lifecycle[i] = s

\* form `f' had its status changed by the status update handled in this step
Updates(f) ==
    /\ Handled /\ lastOp'.op = "update_form" /\ lastOp'.form_id = f
    /\ f \in DOMAIN forms /\ f \in DOMAIN forms'

\* C11: a status update whose form_status is none of created, sent, filled,
\* controlled is rejected and changes neither the forms nor the animals, and
\* every stored form_status is one of the four lifecycle states.
C11_UnknownStatusRejected ==
    [][ /\ \A f \in DOMAIN forms :
               ( /\ Updates(f) /\ lastOp'.status # None
                 /\ Val(lastOp'.status) \notin LifecycleStates ) =>
                   /\ ~lastOp'.ok
                   /\ forms' = forms
                   /\ animals' = animals
        /\ \A f \in DOMAIN forms' : forms'[f].form_status \in LifecycleStates
      ]_vars

\* C12: a status update never moves a form to a lifecycle state that comes
\* before the state the form is in.
C12_StatusNeverMovesBack ==
    [][ \A f \in DOMAIN forms :
            ( /\ Updates(f)
              /\ forms[f].form_status \in LifecycleStates
              /\ forms'[f].form_status \in LifecycleStates ) =>
                Rank(forms'[f].form_status) >= Rank(forms[f].form_status) ]_vars

\* C13: when a status update moves a form into sent, filled or controlled
\* and the date of that state is already set, the date keeps its value.
C13_RevisitKeepsDate ==
    [][ \A f \in DOMAIN forms :
            ( Updates(f) /\ forms'[f].form_status # forms[f].form_status ) =>
                /\ ( forms'[f].form_status = "sent" /\ IsSet(forms[f].assigned_date) ) =>
                       forms'[f].assigned_date = forms[f].assigned_date
                /\ ( forms'[f].form_status = "filled" /\ IsSet(forms[f].filled_date) ) =>
                       forms'[f].filled_date = forms[f].filled_date
                /\ ( forms'[f].form_status = "controlled"
                     /\ IsSet(forms[f].controlled_date) ) =>
                       forms'[f].controlled_date = forms[f].controlled_date ]_vars

\* the forms created in this step, and the list the sweep returned
NewForms == DOMAIN forms' \ DOMAIN forms
Returned == { lastOp'.created[i] : i \in 1..Len(lastOp'.created) }

\* C14: for each animal a sweep finds due, the sweep creates one form of that
\* animal in status created, with created_date the sweep's now and no
\* transition date, and appends its id at the end of the animal's form_ids.
C14_SweepCreatesCreatedForm ==
    [][ Handles(Sweep) =>
            \A a \in DOMAIN animals :
                Due(animals[a], clock') =>
                    \E f \in NewForms :
                        /\ forms'[f] =
                               [ animal_id |-> a, form_status |-> "created",
                                 created_date |-> clock', assigned_date |-> None,
                                 filled_date |-> None, controlled_date |-> None,
                                 control_due_date |-> None ]
                        /\ animals'[a].form_ids = Append(animals[a].form_ids, f) ]_vars

C14_Witness ==
    /\ Done(Sweep) /\ Len(lastOp.created) = 1
    /\ LET f == lastOp.created[1]
           ids == animals[forms[f].animal_id].form_ids
       IN  /\ Len(ids) = 2 /\ ids[2] = f
           /\ forms[ids[1]].created_date < forms[f].created_date
           /\ forms[f].created_date = clock

\* C15: after a form is created for an animal, by POST /forms/, by the
\* animal-scoped create-form or by a sweep, the animal's
\* last_form_created_date is the created_date of the new form.
C15_LastCreatedDateFollowsCreation ==
    [][ ( Handled /\ lastOp'.ok
          /\ lastOp'.op \in {"create_form", "create_form_for_animal", Sweep} ) =>
            \A f \in NewForms :
                animals'[forms'[f].animal_id].last_form_created_date =
                    Some(forms'[f].created_date) ]_vars

\* C16: a sweep leaves the last_form_sent_date of every animal as it was.
C16_SweepKeepsSentDate ==
    [][ ( Handled /\ lastOp'.op = Sweep ) =>
            \A a \in DOMAIN animals :
                /\ a \in DOMAIN animals'
                /\ animals'[a].last_form_sent_date = animals[a].last_form_sent_date
      ]_vars

C16_Witness ==
    /\ Done(Sweep)
    /\ \E i \in 1..Len(lastOp.created) :
           LET a == forms[lastOp.created[i]].animal_id
           IN  /\ IsSet(animals[a].last_form_sent_date)
               /\ Val(animals[a].last_form_sent_date) < clock

\* C17: one sweep creates at most one form per animal, and the list it
\* returns holds exactly the forms it created: one for each animal that was
\* due, none for the others.
C17_OneFormPerAnimalPerSweep ==
    [][ Handles(Sweep) =>
            /\ \A f, g \in NewForms : forms'[f].animal_id = forms'[g].animal_id => f = g
            /\ Returned = NewForms
            /\ Len(lastOp'.created) = Cardinality(NewForms)
            /\ \A a \in DOMAIN animals :
                   Due(animals[a], clock') <=>
                       \E f \in Returned : forms'[f].animal_id = a ]_vars

C17_Witness ==
    /\ Done(Sweep) /\ Len(lastOp.created) = 1
    /\ \E a, b \in DOMAIN animals :
           /\ forms[lastOp.created[1]].animal_id = a
           /\ Len(animals[a].form_ids) = 2
           /\ b # a /\ animals[b].form_ids = << >>

\* C18: when the store fails on the form of one due animal, the sweep still
\* creates the forms of all the other due animals.
C18_SweepIsolatesFailures ==
    [][ ( Handled /\ lastOp'.op = Sweep /\ ~lastOp'.ok ) =>
            \A a \in DOMAIN animals :
                ( a # lastOp'.animal_id /\ Due(animals[a], clock') ) => CreatedFor(a)
      ]_vars

Sweeping == { t \in DOMAIN inflight : inflight[t].op = "sweep" }
Quiescent == DOMAIN inflight = {}
IdsOf(a) == { animals[a].form_ids[i] : i \in 1..Len(animals[a].form_ids) }

\* C19: at no time are two sweeps in progress, whatever started them.
C19_SweepsNeverOverlap == Cardinality(Sweeping) <= 1

\* a sweep run by the scheduler and a sweep run for a request are in progress
\* together and each has created a form for the same animal
OverlapDuplicates ==
    \E t, u \in Sweeping :
        /\ inflight[t].trigger = "scheduler" /\ inflight[u].trigger = "request"
        /\ \E i \in 1..Len(inflight[t].created), j \in 1..Len(inflight[u].created) :
               forms[inflight[t].created[i]].animal_id =
                   forms[inflight[u].created[j]].animal_id

\* the part of C19 the scheduler provides: two runs of the interval job are
\* never in progress together
SchedulerRunsNeverOverlap ==
    Cardinality({ t \in Sweeping : inflight[t].trigger = "scheduler" }) <= 1

\* C20: whatever the threads are doing, every animal's form_ids holds
\* exactly the ids of the existing forms of that animal, each once.
C20_FormIdsNeverDiverge ==
    \A a \in DOMAIN animals :
        /\ IdsOf(a) = FormsOf(forms, a)
        /\ Len(animals[a].form_ids) = Cardinality(FormsOf(forms, a))

\* the second half of C20 alone: when no request is in progress, no id is
\* missing from form_ids and none is left in it without its form
FormIdsSettle ==
    Quiescent => \A a \in DOMAIN animals : IdsOf(a) = FormsOf(forms, a)

LookupOps == {"create_form", "create_form_for_animal", "update_form", "delete_form"}

\* C21: a status update or a deletion of a form that does not exist, and a
\* form creation for an animal that does not exist, is answered NotFound and
\* changes no animal and no form; these requests succeed only on an
\* existing form or animal.
C21_NotFoundChangesNothing ==
    [][ ( Handled /\ lastOp'.op \in LookupOps ) =>
            IF lastOp'.ok
            THEN /\ lastOp'.animal_id \in DOMAIN animals
                 /\ lastOp'.op \in {"update_form", "delete_form"} =>
                        lastOp'.form_id \in DOMAIN forms
            ELSE animals' = animals /\ forms' = forms ]_vars

C21_Witness ==
    /\ lastOp.op = "delete_form" /\ ~lastOp.ok
    /\ DOMAIN forms = {1, 2}
    /\ animals[1].form_ids = << 1, 2 >>

\* C22: the reconciler applied to any animal id: for an animal with forms
\* it copies the form_status of the highest-id form, copies that form's
\* assigned_date into last_form_sent_date when it is set, and changes nothing
\* else; for an animal without forms or an unknown id it changes nothing.
C22_ReconcileTakesHighestId ==
    \A a \in AnimalIds :
        LET after == update_animal_from_latest_form(animals, forms, a)
        IN  IF a \notin DOMAIN animals \/ FormsOf(forms, a) = {}
            THEN after = animals
            ELSE LET top == forms[Max(FormsOf(forms, a))]
                 IN  after = [animals EXCEPT
                                 ![a].form_status = top.form_status,
                                 ![a].last_form_sent_date =
                                     IF top.assigned_date # None
                                     THEN top.assigned_date ELSE @]

\* the latest form of an animal is not the form sent last, and an update has
\* just reconciled the animal
C22_Witness ==
    /\ Done("update_form")
    /\ \E f, g \in FormsOf(forms, lastOp.animal_id) :
           /\ f < g /\ g = Max(FormsOf(forms, lastOp.animal_id))
           /\ IsSet(forms[f].assigned_date) /\ IsSet(forms[g].assigned_date)
           /\ Val(forms[f].assigned_date) > Val(forms[g].assigned_date)
           /\ animals[lastOp.animal_id].last_form_sent_date = forms[g].assigned_date
           /\ animals[lastOp.animal_id].form_status = forms[g].form_status

\* C23: PUT /animals/{id} leaves form_status and last_form_sent_date of
\* every animal as they were.
C23_MirrorOnlyThroughReconciler ==
    [][ ( Handled /\ lastOp'.op = "update_animal" ) =>
            \A a \in DOMAIN animals :
                /\ animals'[a].form_status = animals[a].form_status
                /\ animals'[a].last_form_sent_date = animals[a].last_form_sent_date
      ]_vars

\* the forms of animal `a' that have an assigned_date
SentForms(a) == { f \in FormsOf(forms, a) : IsSet(forms[f].assigned_date) }

\* C24: an animal that has a form with an assigned_date has, as
\* last_form_sent_date, the assigned_date of its highest-id such form.
C24_SentDateOfLatestSentForm ==
    \A a \in DOMAIN animals :
        SentForms(a) # {} =>
            animals[a].last_form_sent_date = forms[Max(SentForms(a))].assigned_date

\* C25: when the reconciler fails after update_form has committed the form,
\* the caller's response differs from the response to an update whose own
\* commit failed, and the form keeps the committed status.
C25_ReconcileFailureIsDistinct ==
    [][ ( Handled /\ lastOp'.op = "update_form" /\ lastOp'.failed_at = "reconcile" ) =>
            /\ lastOp'.response # response_of("commit")
            /\ lastOp'.status # None =>
                   forms'[lastOp'.form_id].form_status = Val(lastOp'.status) ]_vars

\* C28: when the store fails during a sweep, every form the sweep has
\* stored, the one of the animal it was processing included, is in the
\* form_ids of its animal.
C28_SweepUnitOfWork ==
    [][ ( Handled /\ lastOp'.op = Sweep /\ ~lastOp'.ok ) =>
            \A f \in NewForms :
                Contains(animals'[forms'[f].animal_id].form_ids, f) ]_vars

\* C26: when update_form or delete_form returns successfully the owning
\* animal has been reconciled: if it has forms, its form_status is the status
\* of its highest-id form and, when that form has an assigned_date, its
\* last_form_sent_date is that date, whichever form was updated or deleted.
C26_ReconciledOnReturn ==
    [][ \A a \in DOMAIN animals' :
            ( /\ Handled /\ lastOp'.ok /\ lastOp'.animal_id = a
              /\ lastOp'.op \in {"update_form", "delete_form"}
              /\ FormsOf(forms', a) # {} ) =>
                LET top == forms'[Max(FormsOf(forms', a))]
                IN  /\ animals'[a].form_status = top.form_status
                    /\ IsSet(top.assigned_date) =>
                           animals'[a].last_form_sent_date = top.assigned_date ]_vars

\* a lower-id form was sent while it was the latest one, a form was created
\* above it, and the update of the lower form has brought the mirror to the
\* status of the form above
C26_Witness ==
    /\ Done("update_form")
    /\ lastOp.form_id < Max(FormsOf(forms, lastOp.animal_id))
    /\ forms[lastOp.form_id].form_status = "filled"
    /\ animals[lastOp.animal_id].last_form_sent_date = forms[lastOp.form_id].assigned_date
    /\ IsSet(forms[lastOp.form_id].assigned_date)
    /\ ~IsSet(forms[Max(FormsOf(forms, lastOp.animal_id))].assigned_date)
    /\ animals[lastOp.animal_id].form_status = "created"

\* C27: a successful update_form to status s changes on the form, besides
\* form_status, only the dates that belong to s (assigned_date and
\* control_due_date for sent, filled_date for filled, controlled_date for
\* controlled, none for created); animal_id, created_date and the other dates
\* keep their values, no other form changes, and a request without
\* form_status changes nothing on the form.
C27_UpdateFormFrame ==
    [][ \A f \in DOMAIN forms :
            ( Handles("update_form") /\ lastOp'.form_id = f ) =>
                LET s == lastOp'.status
                    old == forms[f]
                    new == forms'[f]
                IN  /\ DOMAIN forms' = DOMAIN forms
                    /\ \A g \in DOMAIN forms \ {f} : forms'[g] = forms[g]
                    /\ new.animal_id = old.animal_id
                    /\ new.created_date = old.created_date
                    /\ s # Some("sent") =>
                           /\ new.assigned_date = old.assigned_date
                           /\ new.control_due_date = old.control_due_date
                    /\ s # Some("filled") => new.filled_date = old.filled_date
                    /\ s # Some("controlled") => new.controlled_date = old.controlled_date
                    /\ s = None => new = old ]_vars

\* a form that was sent has been moved back to created and keeps its dates
C27_Witness ==
    /\ Done("update_form")
    /\ lastOp.status = Some("created")
    /\ forms[lastOp.form_id].form_status = "created"
    /\ IsSet(forms[lastOp.form_id].assigned_date)
    /\ IsSet(forms[lastOp.form_id].control_due_date)

\* the dates that go with the status of a form are set
StatusDatesSet(form) ==
    /\ form.form_status = "sent" =>
           IsSet(form.assigned_date) /\ IsSet(form.control_due_date)
    /\ form.form_status = "filled" => IsSet(form.filled_date)
    /\ form.form_status = "controlled" => IsSet(form.controlled_date)

\* C29: in every state reached through the API every form with status sent
\* has assigned_date and control_due_date, every form with status filled has
\* filled_date and every form with status controlled has controlled_date;
\* a form that has just been created has status created and none of these
\* dates.
C29_StatusDates ==
    [][ /\ \A f \in DOMAIN forms' : StatusDatesSet(forms'[f])
        /\ \A f \in NewForms :
               /\ forms'[f].form_status = "created"
               /\ forms'[f].assigned_date = None
               /\ forms'[f].control_due_date = None
               /\ forms'[f].filled_date = None
               /\ forms'[f].controlled_date = None ]_vars

\* a form has been sent and then filled
C29_Witness ==
    /\ Done("update_form")
    /\ lastOp.status = Some("filled")
    /\ forms[lastOp.form_id].form_status = "filled"
    /\ IsSet(forms[lastOp.form_id].filled_date)
    /\ IsSet(forms[lastOp.form_id].assigned_date)
    /\ Val(forms[lastOp.form_id].filled_date) > Val(forms[lastOp.form_id].assigned_date)

\* form `A' of animal `a' is moved to sent in this step
MovesToSent(a, A) ==
    /\ Handles("update_form") /\ lastOp'.form_id = A
    /\ lastOp'.status = Some("sent")
    /\ A \in DOMAIN forms /\ forms[A].animal_id = a

\* the animal's mirror after form A was sent, seen from a higher-id form B
MirrorStaysWith(a, B) ==
    /\ animals'[a].last_form_sent_date = animals[a].last_form_sent_date
    /\ animals'[a].form_status = forms'[B].form_status
    /\ \A now \in ClockValues :
           should_create(animals'[a], now) <=> should_create(animals[a], now)

====
